---- MODULE Spec2Model ----
(***************************************************************************)
(* Model of rustic's mount file system (src/commands/mount/fs.rs) and of   *)
(* the check command (src/commands/check.rs).                              *)
(*                                                                         *)
(* SpecFS: the handle table of RusticFS behind its RwLock, driven by the   *)
(* two executors of FuseMT::new(fs, 1).  SpecSeq: the same calls, one      *)
(* after the other.  SpecPacks: check_packs on every index and pack        *)
(* listing of a bounded family.  SpecSnap: check_packs, then               *)
(* check_snapshots.  SpecCheck: a whole run of execute.  SpecFSFair: the   *)
(* executors under fair scheduling.  SpecMeta: getattr and getxattr.       *)
(* SpecWide: check_packs on packs whose blob lengths reach the width of    *)
(* u32.  SpecCheckFair: a run of execute that goes on while it can.        *)
(***************************************************************************)
EXTENDS Integers, Sequences, FiniteSets, Bags, TLC

VARIABLES
    open_files,   \* RusticFS.open_files: BTreeMap<u64, OpenFile>, a function fh -> OpenFile
    writer,       \* the thread holding the write lock of open_files, or NoThread
    readers,      \* the threads holding a read lock of open_files
    th,           \* per executor: the FilesystemMT call it is in, its arguments, its reply
    live,         \* history: the (fh, path) pairs returned by an open and not yet released
    released,     \* history: the identifiers released since an open last returned them
    cfg,          \* execute: cache (cache is Some), read_data (opts.read_data),
                  \* overflow_checks (the build panics on integer overflow)
    repo,         \* what the backend and the cache hold during the run
    cpc,          \* execute: the call the run is at
    result,       \* execute: "running", "ok" (Ok(())), "err" (an Err returned), "panic"
    ftq,          \* execute, line 29: the file types the first loop has still to do
    ft,           \* check_cache_files: file_type
    pending,      \* check_cache_files: the files the stream has not handed out yet
    inflight,     \* check_cache_files: the comparisons for_each_concurrent is running
    idx,          \* check_packs: the position of the index stream
    packs,        \* check_packs: HashMap pack id -> size
    collector,    \* check_packs: index_collector, the blobs of the packs lists
    snap_trees,   \* check_snapshots: the root trees of the snapshots
    tpending,     \* TreeStreamerOnce: the trees still to load, with their paths
    visited,      \* TreeStreamerOnce: the tree ids seen
    diags,        \* the lines written by eprintln!, a bag
    hist          \* history: the call that failed, the trees and files processed

fsVars == <<open_files, writer, readers, th, live, released>>
ckVars == <<cfg, repo, cpc, result, ftq, ft, pending, inflight, idx, packs, collector,
            snap_trees, tpending, visited, diags, hist>>
vars == <<open_files, writer, readers, th, live, released,
          cfg, repo, cpc, result, ftq, ft, pending, inflight, idx, packs, collector,
          snap_trees, tpending, visited, diags, hist>>

----------------------------------------------------------------------------
(* Bounds of the model *)

\* read offsets 0..MaxOffset are issued (the largest file has 5 bytes)
MaxOffset == 6
\* read sizes 0..MaxSize are issued
MaxSize == 4
\* release and read are issued on the identifiers 0..MaxFh
MaxFh == 1

----------------------------------------------------------------------------
(* The snapshot that is mounted *)

\* The executors that call into RusticFS concurrently: FuseMT::new(fs, 1) has the
\* session thread and one worker thread.
Threads == {"session", "worker"}
NoThread == "none"

\* The paths the mount facility asks for: two regular files, a directory and a
\* path that is not in the tree.
Paths == {"a", "b", "dir", "missing"}

\* Node.content of the two regular files: ordered lists of data blob ids.
NodeContent(path) ==
    CASE path = "a" -> <<1, 2, 3>>
      [] path = "b" -> <<4, 5>>
      [] OTHER -> <<>>

\* The decrypted contents of the data blobs; every byte of the repository is
\* different from every other one.
BlobLen(id) ==
    CASE id = 1 -> 2
      [] id = 2 -> 1
      [] id = 3 -> 2
      [] id = 4 -> 1
      [] id = 5 -> 2
      [] OTHER -> 0

BlobData(id) == [i \in 1..BlobLen(id) |-> 10 * id + i]

Min(a, b) == IF a < b THEN a ELSE b

\* The errno values of the replies.
ENOENT == "ENOENT"
ENOSYS == "ENOSYS"

\* Result<_, i32> of a FilesystemMT call, with the payload of each call.
Reply(ok, err, fh, data) == [ok |-> ok, err |-> err, fh |-> fh, data |-> data]
NoReply == Reply(FALSE, "", 0, <<>>)

----------------------------------------------------------------------------
(* rustic_core: Repository::node_from_path, open_file, read_file_at *)

\* Repository::node_from_path: an Err for a path that is not in the tree.
NodeFromPath(path) == IF path = "missing" THEN [ok |-> FALSE] ELSE [ok |-> TRUE, path |-> path]

\* Repository::open_file: the ordered (id, length) list of the node's content;
\* an Err for a node that is not a regular file.
OpenFileOf(path) ==
    IF path \in {"a", "b"}
    THEN [ok |-> TRUE,
          file |-> [i \in 1..Len(NodeContent(path)) |->
                       [id |-> NodeContent(path)[i], length |-> BlobLen(NodeContent(path)[i])]]]
    ELSE [ok |-> FALSE, file |-> <<>>]

\* Repository::read_file_at: skip the blobs that end at or before offset, then
\* fetch blob after blob, take what is left of the window from each, until the
\* window is full or the list ends.
RECURSIVE ReadLoop(_, _, _, _, _)
ReadLoop(content, i, offset, length, acc) ==
    IF length = 0 \/ i > Len(content)
    THEN acc
    ELSE IF offset >= content[i].length
         THEN ReadLoop(content, i + 1, offset - content[i].length, length, acc)
         ELSE LET data == BlobData(content[i].id)
                  n == Min(Len(data) - offset, length)
              IN ReadLoop(content, i + 1, 0, length - n,
                          acc \o SubSeq(data, offset + 1, offset + n))

\* TRUE iff the window [offset, offset+length) overlaps a blob, which is then fetched.
RECURSIVE Fetches(_, _, _, _)
Fetches(content, i, offset, length) ==
    IF length = 0 \/ i > Len(content)
    THEN FALSE
    ELSE IF offset >= content[i].length
         THEN Fetches(content, i + 1, offset - content[i].length, length)
         ELSE TRUE

\* fetchOk: the backend delivers the blobs that are fetched.
ReadFileAt(open_file, offset, length, fetchOk) ==
    IF Fetches(open_file, 1, offset, length) /\ ~fetchOk
    THEN [ok |-> FALSE, data |-> <<>>]
    ELSE [ok |-> TRUE, data |-> ReadLoop(open_file, 1, offset, length, <<>>)]

----------------------------------------------------------------------------
(* RusticFS *)

\* BTreeMap::first_key_value: the smallest key of the map.
RECURSIVE FirstKeyFrom(_, _)
FirstKeyFrom(keys, k) == IF k \in keys THEN k ELSE FirstKeyFrom(keys, k + 1)

FirstKey(table) == FirstKeyFrom(DOMAIN table, 0)

\* open, line 121: the key the new OpenFile is inserted under.
ChooseFh(table) == IF DOMAIN table = {} THEN 0 ELSE FirstKey(table)

\* BTreeMap::insert: replaces the value of a key that is present.
Insert(table, k, v) == [x \in DOMAIN table \cup {k} |-> IF x = k THEN v ELSE table[x]]

\* BTreeMap::remove: no effect for a key that is absent.
Remove(table, k) == [x \in DOMAIN table \ {k} |-> table[x]]

\* A read that hands the window to read_file_at in the wrong order.
ReadReplyArgsSwapped(table, fh, offset, size, fetchOk) ==
    IF fh \in DOMAIN table
    THEN LET r == ReadFileAt(table[fh], size, offset, fetchOk)
         IN IF r.ok THEN Reply(TRUE, "", fh, r.data) ELSE Reply(FALSE, ENOSYS, fh, <<>>)
    ELSE Reply(FALSE, ENOSYS, fh, <<>>)

\* read, lines 149-157: the reply of a read that holds the read lock.
ReadReply(table, fh, offset, size, fetchOk) ==
    IF fh \in DOMAIN table
    THEN LET r == ReadFileAt(table[fh], offset, size, fetchOk)
         IN IF r.ok THEN Reply(TRUE, "", fh, r.data) ELSE Reply(FALSE, ENOSYS, fh, <<>>)
    ELSE Reply(FALSE, ENOSYS, fh, <<>>)

\* release, lines 135-136: the reply of a release.
ReleaseReply(table, fh) == Reply(TRUE, "", fh, <<>>)

Idle == [pc |-> "idle", op |-> "none", path |-> "", name |-> "", fh |-> 0, offset |-> 0, size |-> 0,
         ret |-> NoReply, before |-> {}, had |-> FALSE, stale |-> FALSE, entry |-> <<>>,
         fetched |-> FALSE]

\* RusticFS::from_node: an empty table, unlocked.
FsStart ==
    /\ open_files = <<>>
    /\ writer = NoThread
    /\ readers = {}
    /\ th = [t \in Threads |-> Idle]
    /\ live = {}
    /\ released = {}

\* No run of the checker.
CkIdle ==
    /\ cfg = [cache |-> FALSE, read_data |-> FALSE, overflow_checks |-> FALSE]
    /\ repo = <<>>
    /\ cpc = "end"
    /\ result = "running"
    /\ ftq = <<>>
    /\ ft = ""
    /\ pending = <<>>
    /\ inflight = {}
    /\ idx = 0
    /\ packs = <<>>
    /\ collector = {}
    /\ snap_trees = <<>>
    /\ tpending = {}
    /\ visited = {}
    /\ diags = <<>>
    /\ hist = <<>>

InitFS == FsStart /\ CkIdle

\* open, lines 118-119: resolve the path and build the OpenFile, outside the lock.
OpenCall(t, path) ==
    /\ th[t].pc = "idle"
    /\ LET node == NodeFromPath(path)
           open == OpenFileOf(path)
       IN th' = [th EXCEPT ![t] =
                   IF ~node.ok
                   THEN [Idle EXCEPT !.pc = "done", !.op = "open", !.path = path,
                                     !.ret = Reply(FALSE, ENOENT, 0, <<>>)]
                   ELSE IF ~open.ok
                   THEN [Idle EXCEPT !.pc = "done", !.op = "open", !.path = path,
                                     !.ret = Reply(FALSE, ENOSYS, 0, <<>>)]
                   ELSE [Idle EXCEPT !.pc = "open_wait", !.op = "open", !.path = path]]
    /\ UNCHANGED <<open_files, writer, readers, live, released>>
    /\ UNCHANGED ckVars

\* open, line 120: open_files.write()
OpenLock(t) ==
    /\ th[t].pc = "open_wait"
    /\ writer = NoThread /\ readers = {}
    /\ writer' = t
    /\ th' = [th EXCEPT ![t].pc = "open_locked"]
    /\ UNCHANGED <<open_files, readers, live, released>>
    /\ UNCHANGED ckVars

\* open, lines 121-123: choose the key, insert, drop the guard, reply.
OpenInsert(t) ==
    /\ th[t].pc = "open_locked"
    /\ LET fh == ChooseFh(open_files)
       IN /\ open_files' = Insert(open_files, fh, OpenFileOf(th[t].path).file)
          /\ th' = [x \in Threads |->
                      IF x = t
                      THEN [th[t] EXCEPT !.pc = "done", !.fh = fh,
                                         !.ret = Reply(TRUE, "", fh, <<>>),
                                         !.before = DOMAIN open_files]
                      ELSE IF th[x].op = "read" /\ th[x].fh = fh /\ th[x].pc # "done"
                      THEN [th[x] EXCEPT !.stale = FALSE]
                      ELSE th[x]]
          /\ live' = live \cup {<<fh, th[t].path>>}
          /\ released' = released \ {fh}
    /\ writer' = NoThread
    /\ UNCHANGED readers
    /\ UNCHANGED ckVars

\* release, line 135: open_files.write()
ReleaseCall(t, fh) ==
    /\ th[t].pc = "idle"
    /\ th' = [th EXCEPT ![t] = [Idle EXCEPT !.pc = "release_wait", !.op = "release", !.fh = fh]]
    /\ UNCHANGED <<open_files, writer, readers, live, released>>
    /\ UNCHANGED ckVars

ReleaseLock(t) ==
    /\ th[t].pc = "release_wait"
    /\ writer = NoThread /\ readers = {}
    /\ writer' = t
    /\ th' = [th EXCEPT ![t].pc = "release_locked"]
    /\ UNCHANGED <<open_files, readers, live, released>>
    /\ UNCHANGED ckVars

\* release, lines 135-136: remove the key, drop the guard, reply Ok.
ReleaseRemove(t) ==
    /\ th[t].pc = "release_locked"
    /\ open_files' = Remove(open_files, th[t].fh)
    /\ th' = [th EXCEPT ![t].pc = "done",
                        ![t].ret = ReleaseReply(open_files, th[t].fh),
                        ![t].had = th[t].fh \in DOMAIN open_files]
    /\ live' = {p \in live : p[1] # th[t].fh}
    /\ released' = IF th[t].fh \in DOMAIN open_files THEN released \cup {th[t].fh} ELSE released
    /\ writer' = NoThread
    /\ UNCHANGED readers
    /\ UNCHANGED ckVars

\* read: the call arrives.
ReadCall(t, fh, offset, size) ==
    /\ th[t].pc = "idle"
    /\ th' = [th EXCEPT ![t] = [Idle EXCEPT !.pc = "read_wait", !.op = "read", !.fh = fh,
                                            !.offset = offset, !.size = size,
                                            !.stale = fh \in released]]
    /\ UNCHANGED <<open_files, writer, readers, live, released>>
    /\ UNCHANGED ckVars

\* read, line 149: open_files.read(); the guard lives to the end of the if let.
ReadLock(t) ==
    /\ th[t].pc = "read_wait"
    /\ writer = NoThread
    /\ readers' = readers \cup {t}
    /\ th' = [th EXCEPT ![t].pc = "read_locked",
                        ![t].had = th[t].fh \in DOMAIN open_files,
                        ![t].entry = IF th[t].fh \in DOMAIN open_files
                                     THEN open_files[th[t].fh] ELSE <<>>]
    /\ UNCHANGED <<open_files, writer, live, released>>
    /\ UNCHANGED ckVars

\* A read that never drops its guard.
ReadServeKeepsGuard(t) ==
    /\ th[t].pc = "read_locked"
    /\ \E fetchOk \in BOOLEAN :
          th' = [th EXCEPT ![t].pc = "done", ![t].fetched = fetchOk,
                           ![t].ret = ReadReply(open_files, th[t].fh, th[t].offset,
                                                th[t].size, fetchOk)]
    /\ UNCHANGED <<open_files, writer, readers, live, released>>
    /\ UNCHANGED ckVars

\* read, lines 149-157: get, read_file_at, the callback, the guard dropped.
ReadServe(t) ==
    /\ th[t].pc = "read_locked"
    /\ \E fetchOk \in BOOLEAN :
          th' = [th EXCEPT ![t].pc = "done", ![t].fetched = fetchOk,
                           ![t].ret = ReadReply(open_files, th[t].fh, th[t].offset,
                                                th[t].size, fetchOk)]
    /\ readers' = readers \ {t}
    /\ UNCHANGED <<open_files, writer, live, released>>
    /\ UNCHANGED ckVars

\* The fields of th that are history, not program state: before (the keys of
\* the table when open chose its key), had (the key was in the table when the
\* lock was taken), entry (the OpenFile found by a read), stale (the read was
\* issued on a released identifier that no open has returned since), fetched
\* (the backend delivered the blobs).

\* The reply has been delivered; the executor takes the next request.
Return(t) ==
    /\ th[t].pc = "done"
    /\ th' = [th EXCEPT ![t] = Idle]
    /\ UNCHANGED <<open_files, writer, readers, live, released>>
    /\ UNCHANGED ckVars

\* The calls of the executors T, with reads of the windows Offsets x Sizes.
Calls(T, Offsets, Sizes) ==
    \/ \E t \in T, path \in Paths : OpenCall(t, path)
    \/ \E t \in T : OpenLock(t)
    \/ \E t \in T : OpenInsert(t)
    \/ \E t \in T, fh \in 0..MaxFh : ReleaseCall(t, fh)
    \/ \E t \in T : ReleaseLock(t)
    \/ \E t \in T : ReleaseRemove(t)
    \/ \E t \in T, fh \in 0..MaxFh, offset \in Offsets, size \in Sizes :
          ReadCall(t, fh, offset, size)
    \/ \E t \in T : ReadLock(t)
    \/ \E t \in T : ReadServe(t)
    \/ \E t \in T : Return(t)

\* Both executors, each issuing any call; reads of a few windows of each kind
\* (inside one blob, across blob boundaries, past the end of the file).
ConcOffsets == {0, 1, 5}
ConcSizes == {0, 3}
NextFS == Calls(Threads, ConcOffsets, ConcSizes)

SpecFS == InitFS /\ [][NextFS]_vars

\* Fair scheduling: an executor that can go on does (the blob fetch of a read
\* returns), and an executor that waits for the lock gets it if the lock is
\* free again and again.  Requests need not keep coming.
FairFS ==
    \A t \in Threads :
        /\ SF_vars(OpenLock(t)) /\ SF_vars(ReleaseLock(t)) /\ SF_vars(ReadLock(t))
        /\ WF_vars(OpenInsert(t)) /\ WF_vars(ReleaseRemove(t)) /\ WF_vars(ReadServe(t))

\* Both executors, each issuing any call; the reads are of one window, across
\* a blob boundary (the lock does not depend on the window).
FairOffsets == {1}
FairSizes == {3}
NextFSFair == Calls(Threads, FairOffsets, FairSizes)

SpecFSFair == InitFS /\ [][NextFSFair]_vars /\ FairFS

\* One executor (calls one after the other), reads of every window.
NextSeq == Calls({"session"}, 0..MaxOffset, 0..MaxSize)

SpecSeq == InitFS /\ [][NextSeq]_vars

----------------------------------------------------------------------------
(* RusticFS: getattr and getxattr *)

\* RusticFS.now: SystemTime::now() when from_node ran.
Now == 9

\* Option<T>: <<>> is None, <<v>> is Some(v).
None == <<>>
Some(v) == <<v>>
UnwrapOr(opt, default) == IF opt = None THEN default ELSE opt[1]

\* A u64 of the value hi * 2^32 + lo.
U64(hi, lo) == [hi |-> hi, lo |-> lo]

\* u32::try_from / try_into of a u64: an Err above u32::MAX.
TryIntoU32(v) == IF v.hi = 0 THEN Some(v.lo) ELSE None

\* DateTime<Local>: an instant (seconds) and the offset of the time zone.
DateTime(secs, offset) == [secs |-> secs, offset |-> offset]

\* SystemTime::from(DateTime<Local>): the instant.
SystemTimeFrom(dt) == dt.secs

\* mode as u16: the low 16 bits.
AsU16(v) == v % 65536

ExtendedAttribute(name, value) == [name |-> name, value |-> value]

\* Node.meta.  links, size and the device number are integers, not options: a
\* node that was stored without a link count has links = 0, and has_links
\* records whether it was stored with one.
Metadata(mode, uid, gid, atime, mtime, ctime, size, links, has_links, xattrs) ==
    [mode |-> mode, uid |-> uid, gid |-> gid, atime |-> atime, mtime |-> mtime, ctime |-> ctime,
     size |-> size, links |-> links, has_links |-> has_links, extended_attributes |-> xattrs]

\* The paths getattr and getxattr are asked for.
MetaPaths == {"a", "b", "dir", "lnk", "dev", "chr", "fifo", "missing"}

\* NodeType of the nodes, with the device number of the device nodes.
NodeTypeOf(path) ==
    CASE path \in {"a", "b"} -> [tpe |-> "File"]
      [] path = "dir" -> [tpe |-> "Dir"]
      [] path = "lnk" -> [tpe |-> "Symlink"]
      [] path = "dev" -> [tpe |-> "Dev", device |-> U64(0, 2049)]
      [] path = "chr" -> [tpe |-> "Chardev", device |-> U64(1, 3)]
      [] OTHER -> [tpe |-> "Fifo"]

\* The metadata of the nodes: every field stored; no optional field, no link
\* count and no attribute stored; some stored; a mode above 16 bits; a link
\* count above u32::MAX.
MetaOf(path) ==
    CASE path = "a" ->
           Metadata(Some(420), Some(1000), Some(100), Some(DateTime(1, 3600)),
                    Some(DateTime(2, 3600)), Some(DateTime(3, 0)), 5, U64(0, 2), TRUE,
                    <<ExtendedAttribute("user.k", <<7, 0, 8>>), ExtendedAttribute("user.e", <<>>)>>)
      [] path = "b" ->
           Metadata(None, None, None, None, None, None, 3, U64(0, 0), FALSE, <<>>)
      [] path = "dir" ->
           Metadata(Some(493), None, Some(0), None, Some(DateTime(4, 0)), None, 0, U64(0, 3), TRUE,
                    <<ExtendedAttribute("user.k", <<9>>)>>)
      [] path = "lnk" ->
           Metadata(Some(134218239), Some(0), None, Some(DateTime(9, 0)), None, None, 0,
                    U64(1, 0), TRUE, <<>>)
      [] path = "dev" ->
           Metadata(Some(432), Some(0), Some(6), None, None, Some(DateTime(5, 0)), 0, U64(0, 1),
                    TRUE, <<>>)
      [] OTHER ->
           Metadata(None, Some(1), Some(1), None, None, None, 0, U64(0, 0), FALSE, <<>>)

\* node_to_filetype, lines 49-59.
NodeToFiletype(node_type) ==
    CASE node_type.tpe = "File" -> "RegularFile"
      [] node_type.tpe = "Dir" -> "Directory"
      [] node_type.tpe = "Symlink" -> "Symlink"
      [] node_type.tpe = "Chardev" -> "CharDevice"
      [] node_type.tpe = "Dev" -> "BlockDevice"
      [] node_type.tpe = "Fifo" -> "NamedPipe"
      [] OTHER -> "Socket"

\* node_type_to_rdev, lines 61-68: None stands for the panic of unwrap().
NodeTypeToRdev(node_type) ==
    TryIntoU32(IF node_type.tpe \in {"Dev", "Chardev"} THEN node_type.device ELSE U64(0, 0))

\* getattr, lines 75-102: the FileAttr of a node.
FileAttr(meta, node_type, now) ==
    [size |-> meta.size,
     blocks |-> 0,
     atime |-> IF meta.atime = None THEN now ELSE SystemTimeFrom(meta.atime[1]),
     mtime |-> IF meta.mtime = None THEN now ELSE SystemTimeFrom(meta.mtime[1]),
     ctime |-> IF meta.ctime = None THEN now ELSE SystemTimeFrom(meta.ctime[1]),
     crtime |-> now,
     kind |-> NodeToFiletype(node_type),
     perm |-> AsU16(UnwrapOr(meta.mode, 0)),
     nlink |-> UnwrapOr(TryIntoU32(meta.links), 1),
     uid |-> UnwrapOr(meta.uid, 0),
     gid |-> UnwrapOr(meta.gid, 0),
     rdev |-> UnwrapOr(NodeTypeToRdev(node_type), 0),
     flags |-> 0]

\* ResultEntry of getattr; a panic is no reply.
AttrReply(ok, err, attr) == [ok |-> ok, err |-> err, attr |-> attr]

\* getattr, lines 71-104.
GetattrReply(path) ==
    IF ~NodeFromPath(path).ok THEN AttrReply(FALSE, ENOENT, <<>>)
    ELSE IF NodeTypeToRdev(NodeTypeOf(path)) = None THEN AttrReply(FALSE, "panic", <<>>)
    ELSE AttrReply(TRUE, "", FileAttr(MetaOf(path), NodeTypeOf(path), Now))

\* ResultXattr of getxattr: Xattr::Size(len) or Xattr::Data(value).
XattrReply(ok, err, kind, len, data) ==
    [ok |-> ok, err |-> err, kind |-> kind, len |-> len, data |-> data]

\* lines 206-210: into_iter().find(..), the first attribute of the name.
RECURSIVE Find(_, _, _)
Find(xattrs, i, name) ==
    IF i > Len(xattrs) THEN None
    ELSE IF xattrs[i].name = name THEN Some(xattrs[i])
    ELSE Find(xattrs, i + 1, name)

\* getxattr, lines 204-221.
GetxattrReply(path, name, size) ==
    IF ~NodeFromPath(path).ok THEN XattrReply(FALSE, ENOENT, "", 0, <<>>)
    ELSE LET found == Find(MetaOf(path).extended_attributes, 1, name)
         IN IF found = None THEN XattrReply(FALSE, ENOSYS, "", 0, <<>>)
            ELSE IF size = 0 THEN XattrReply(TRUE, "", "Size", Len(found[1].value), <<>>)
            ELSE XattrReply(TRUE, "", "Data", 0, found[1].value)

GetattrCall(t, path) ==
    /\ th[t].pc = "idle"
    /\ th' = [th EXCEPT ![t] = [Idle EXCEPT !.pc = "done", !.op = "getattr", !.path = path,
                                            !.ret = GetattrReply(path)]]
    /\ UNCHANGED <<open_files, writer, readers, live, released>>
    /\ UNCHANGED ckVars

GetxattrCall(t, path, name, size) ==
    /\ th[t].pc = "idle"
    /\ th' = [th EXCEPT ![t] = [Idle EXCEPT !.pc = "done", !.op = "getxattr", !.path = path,
                                            !.name = name, !.size = size,
                                            !.ret = GetxattrReply(path, name, size)]]
    /\ UNCHANGED <<open_files, writer, readers, live, released>>
    /\ UNCHANGED ckVars

\* The names and the sizes getxattr is asked with: a size probe, a buffer.
XattrNames == {"user.k", "user.e", "user.none"}
XattrSizes == {0, 16}

\* Both executors, answering getattr and getxattr.
NextMeta ==
    \/ \E t \in Threads, path \in MetaPaths : GetattrCall(t, path)
    \/ \E t \in Threads, path \in MetaPaths, name \in XattrNames, size \in XattrSizes :
          GetxattrCall(t, path, name, size)
    \/ \E t \in Threads : Return(t)

SpecMeta == InitFS /\ [][NextMeta]_vars

----------------------------------------------------------------------------
(* Properties of the handle table *)

\* The smallest key that is not in keys.
MinUnused(keys) ==
    CHOOSE k \in 0..Cardinality(keys) : k \notin keys /\ \A j \in 0..(k - 1) : j \in keys

\* The bytes of the blobs of an OpenFile, one after the other.
RECURSIVE Concat(_, _)
Concat(content, i) ==
    IF i > Len(content) THEN <<>> ELSE BlobData(content[i].id) \o Concat(content, i + 1)

\* The bytes [offset, min(offset+size, Len(bytes))) of bytes.
Window(bytes, offset, size) == SubSeq(bytes, offset + 1, Min(offset + size, Len(bytes)))

DoneCalls(op) == {t \in Threads : th[t].pc = "done" /\ th[t].op = op}

\* The write lock excludes every other holder.
LockExclusive == writer # NoThread => readers = {}

\* C1: the identifier an open returns is the smallest key that was not in the
\* handle table at the moment of the open, so the open replaces no entry.
C1_OpenReturnsSmallestUnused ==
    \A t \in DoneCalls("open") :
        th[t].ret.ok => /\ th[t].ret.fh = MinUnused(th[t].before)
                        /\ th[t].ret.fh \notin th[t].before

\* C2: from the open that returned h until the release of h, the blob list
\* stored under h is the one built for the file the open was called on, and a
\* read on h that returns data returns bytes of that file.
C2_HandleKeepsItsFile ==
    /\ \A p \in live :
          /\ p[1] \in DOMAIN open_files
          /\ open_files[p[1]] = OpenFileOf(p[2]).file
    /\ \A t \in DoneCalls("read") : \A p \in live :
          (th[t].ret.ok /\ th[t].fh = p[1]) =>
              th[t].ret.data = Window(Concat(OpenFileOf(p[2]).file, 1), th[t].offset, th[t].size)

\* C3: a read issued on a handle after its release has completed, and before
\* an open returns the identifier again, returns no data and fails with NotFound.
C3_ReadAfterReleaseNotFound ==
    \A t \in DoneCalls("read") :
        th[t].stale => /\ ~th[t].ret.ok
                       /\ th[t].ret.data = <<>>
                       /\ th[t].ret.err = ENOENT

\* C4: a release of an identifier that is not in the handle table fails with
\* NotFound (and leaves the table unchanged).
C4_ReleaseUnknownNotFound ==
    \A t \in DoneCalls("release") :
        ~th[t].had => ~th[t].ret.ok /\ th[t].ret.err = ENOENT

\* C5: a read on an open handle whose blobs the backend delivers returns
\* exactly the bytes [offset, min(offset+size, fileSize)) of the concatenation
\* of the handle's blobs; at offset >= fileSize it succeeds with no bytes.
C5_ReadReturnsWindow ==
    \A t \in DoneCalls("read") :
        th[t].had =>
            LET bytes == Concat(th[t].entry, 1)
            IN /\ th[t].fetched =>
                     /\ th[t].ret.ok
                     /\ th[t].ret.data = Window(bytes, th[t].offset, th[t].size)
               /\ th[t].offset >= Len(bytes) => th[t].ret.ok /\ th[t].ret.data = <<>>

\* C5 witness: a read of file "a" (blobs of 2, 1 and 2 bytes) at offset 1 of
\* size 3 has returned the bytes of three blobs.
C5_Witness ==
    \E t \in DoneCalls("read") :
        /\ th[t].had /\ th[t].offset = 1 /\ th[t].size = 3
        /\ th[t].ret.ok /\ th[t].ret.data = <<12, 21, 31>>

\* C6: a read that runs while a release of the same handle is in flight either
\* found the complete entry and served its data, or failed with NotFound; a
\* read that holds the lock sees the entry it found unchanged in the table.
C6_ReadDuringRelease ==
    /\ \A t \in DoneCalls("read") :
          (\E u \in Threads \ {t} : th[u].op = "release" /\ th[u].fh = th[t].fh) =>
              \/ /\ th[t].had
                 /\ th[t].fetched =>
                       /\ th[t].ret.ok
                       /\ th[t].ret.data =
                              Window(Concat(th[t].entry, 1), th[t].offset, th[t].size)
              \/ /\ ~th[t].had
                 /\ ~th[t].ret.ok /\ th[t].ret.err = ENOENT
    /\ \A t \in Threads :
          th[t].pc = "read_locked" =>
              /\ writer = NoThread
              /\ th[t].had => /\ th[t].fh \in DOMAIN open_files
                              /\ open_files[th[t].fh] = th[t].entry

----------------------------------------------------------------------------
(* The repository the checker runs on *)

\* Bounds: the backend lists packs with ids in 1..MaxPack; an index has at most
\* MaxIndexFiles index files.
MaxPack == 2
MaxIndexFiles == 2

\* Id::is_null: the all-zero Id.
NullId == 0

\* One line of eprintln!: what it reports, the path it names (tree checks), and
\* the Ids and numbers it prints.
Diag(kind, where, id, sub, x, y) ==
    [kind |-> kind, where |-> where, id |-> id, sub |-> sub, x |-> x, y |-> y]

One(d) == SetToBag({d})

\* The number of lines of the bag b that are in the set D.
RECURSIVE Copies(_, _)
Copies(b, D) ==
    IF D = {} THEN 0
    ELSE LET d == CHOOSE x \in D : TRUE IN CopiesIn(d, b) + Copies(b, D \ {d})

Lines(kind, id) == {d \in BagToSet(diags) : d.kind = kind /\ d.id = id}

\* IndexBlob and IndexPack of an index file.
IndexBlob(id, tpe, offset, length) == [id |-> id, tpe |-> tpe, offset |-> offset, length |-> length]
IndexPack(id, size, tpe, blobs) == [id |-> id, size |-> size, tpe |-> tpe, blobs |-> blobs]

\* IndexPack::pack_size and IndexPack::blob_type.
PackSize(p) == p.size
BlobType(p) == p.tpe

\* u32: IndexBlob.offset, IndexBlob.length and expected_offset.  Offsets,
\* lengths and sizes are counted in units of 2^29 bytes, so 2^32 is 8 units and
\* u32 arithmetic on them is arithmetic modulo 8.
U32 == 8

\* Blob lists of pack k: contiguous from 0; the same in another order; with a
\* gap before the second blob; with a tree blob in a data pack.
Contiguous(k) == <<IndexBlob(10 * k + 1, "data", 0, 2), IndexBlob(10 * k + 2, "data", 2, 1)>>
Unsorted(k) == <<IndexBlob(10 * k + 2, "data", 2, 1), IndexBlob(10 * k + 1, "data", 0, 2)>>
Gap(k) == <<IndexBlob(10 * k + 1, "data", 0, 2), IndexBlob(10 * k + 2, "data", 3, 1)>>
Mixed(k) == <<IndexBlob(10 * k + 1, "data", 0, 2), IndexBlob(10 * k + 3, "tree", 2, 1)>>

\* Blob lists whose lengths add up to 2^32 or more: contiguous from 0, the last
\* blob ending at 2^32; three blobs of which the third is recorded at the sum
\* of the two before it less 2^32.
Wide(k) == <<IndexBlob(10 * k + 1, "data", 0, 5), IndexBlob(10 * k + 2, "data", 5, 3)>>
Wrapped(k) == <<IndexBlob(10 * k + 1, "data", 0, 7), IndexBlob(10 * k + 2, "data", 1, 7),
                IndexBlob(10 * k + 3, "data", 6, 1)>>

IndexFile(ps, del) == [packs |-> ps, packs_to_delete |-> del]

\* The index files an index is made of.
IndexFiles ==
    { IndexFile(<<IndexPack(1, 4, "data", Contiguous(1))>>, <<>>),
      IndexFile(<<IndexPack(2, 5, "data", Unsorted(2))>>, <<IndexPack(1, 4, "data", Contiguous(1))>>),
      IndexFile(<<>>, <<IndexPack(2, 5, "data", Gap(2))>>),
      IndexFile(<<IndexPack(1, 5, "data", Mixed(1))>>, <<>>),
      IndexFile(<<IndexPack(2, 4, "data", Contiguous(2)), IndexPack(1, 4, "data", Gap(1))>>, <<>>) }

SeqsUpTo(S, n) == UNION {[1..k -> S] : k \in 0..n}

Indexes == SeqsUpTo(IndexFiles, MaxIndexFiles)

\* The sizes of the pack files of the backend.
PackFileSizes == {4, 5}

\* list_with_size(FileType::Pack): each pack file once, with its size.
RECURSIVE ListingOf(_, _)
ListingOf(f, k) ==
    IF k > MaxPack THEN <<>>
    ELSE (IF f[k] = 0 THEN <<>> ELSE <<(<<k, f[k]>>)>>) \o ListingOf(f, k + 1)

Listings == {ListingOf(f, 1) : f \in [1..MaxPack -> PackFileSizes \cup {0}]}

----------------------------------------------------------------------------
(* check_packs *)

\* HashMap::insert and HashMap::remove on packs.
PacksInsert(map, k, v) == [x \in DOMAIN map \cup {k} |-> IF x = k THEN v ELSE map[x]]
PacksRemove(map, k) == [x \in DOMAIN map \ {k} |-> map[x]]

\* blobs.sort_unstable(): by offset.
RECURSIVE InsertByOffset(_, _)
InsertByOffset(sorted, b) ==
    IF sorted = <<>> THEN <<b>>
    ELSE IF b.offset < Head(sorted).offset THEN <<b>> \o sorted
    ELSE <<Head(sorted)>> \o InsertByOffset(Tail(sorted), b)

RECURSIVE SortByOffset(_)
SortByOffset(blobs) ==
    IF blobs = <<>> THEN <<>>
    ELSE InsertByOffset(SortByOffset(SubSeq(blobs, 1, Len(blobs) - 1)), blobs[Len(blobs)])

\* line 128: expected_offset += blob.length on u32 overflows.
Overflows(expected_offset, length) == expected_offset + length >= U32

\* process_pack, lines 114-129: TRUE iff line 128 overflows for a blob from the
\* i-th on.
RECURSIVE LoopOverflows(_, _, _)
LoopOverflows(blobs, i, expected_offset) ==
    IF i > Len(blobs) THEN FALSE
    ELSE \/ Overflows(expected_offset, blobs[i].length)
         \/ LoopOverflows(blobs, i + 1, expected_offset + blobs[i].length)

\* process_pack, lines 114-129: the lines for the blobs from the i-th on.
\* On overflow line 128 panics in a build with overflow checks, and wraps
\* around in a build without.
RECURSIVE BlobLines(_, _, _, _, _)
BlobLines(p, blobs, i, expected_offset, checks) ==
    IF i > Len(blobs) THEN EmptyBag
    ELSE LET blob == blobs[i]
             kind == IF blob.tpe # BlobType(p)
                     THEN One(Diag("blob_type", <<>>, p.id, blob.id, 0, 0))
                     ELSE EmptyBag
             offs == IF blob.offset # expected_offset
                     THEN One(Diag("offset", <<>>, p.id, blob.id, blob.offset, expected_offset))
                     ELSE EmptyBag
         IN kind (+) offs (+)
            (IF checks /\ Overflows(expected_offset, blob.length)
             THEN EmptyBag
             ELSE BlobLines(p, blobs, i + 1, (expected_offset + blob.length) % U32, checks))

\* process_pack, lines 105-130, on acc = [packs, lines, panic].
ProcessPack(p, acc, checks) ==
    [packs |-> PacksInsert(acc.packs, p.id, PackSize(p)),
     lines |-> acc.lines (+) BlobLines(p, SortByOffset(p.blobs), 1, 0, checks),
     panic |-> checks /\ LoopOverflows(SortByOffset(p.blobs), 1, 0)]

\* lines 138-143: process_pack on the packs from the i-th on, up to a panic.
RECURSIVE ProcessPacks(_, _, _, _)
ProcessPacks(ps, i, acc, checks) ==
    IF i > Len(ps) \/ acc.panic THEN acc
    ELSE ProcessPacks(ps, i + 1, ProcessPack(ps[i], acc, checks), checks)

\* IndexCollector::extend: the blobs of the packs, each with its kind.
Extend(coll, ps) ==
    coll \cup {[id |-> ps[i].blobs[j].id, tpe |-> ps[i].blobs[j].tpe] :
                  <<i, j>> \in {q \in (1..Len(ps)) \X (1..3) : q[2] <= Len(ps[q[1]].blobs)}}

\* An index_collector that is fed both lists of the index file.
CollectBoth(coll, index) == Extend(Extend(coll, index.packs), index.packs_to_delete)

\* line 137: index_collector.extend(index.packs.clone())
Collect(coll, index) == Extend(coll, index.packs)

\* IndexedBackend::has_data on the index made by into_index().
HasData(coll, id) == [id |-> id, tpe |-> "data"] \in coll

\* A pack file that passes as good though its size is not the size of the index.
VerdictIgnoresSize(map, id, size) ==
    IF id \notin DOMAIN map
    THEN One(Diag("not_referenced", <<>>, id, 0, 0, 0))
    ELSE EmptyBag

\* lines 149-158: the line for one pack file of the backend.
Verdict(map, id, size) ==
    IF id \notin DOMAIN map
    THEN One(Diag("not_referenced", <<>>, id, 0, 0, 0))
    ELSE IF map[id] # size
    THEN One(Diag("size", <<>>, id, 0, map[id], size))
    ELSE EmptyBag

\* lines 148-159: the loop over the pack files, on acc = [packs, lines].
RECURSIVE ListLoop(_, _, _)
ListLoop(listing, i, acc) ==
    IF i > Len(listing) THEN acc
    ELSE ListLoop(listing, i + 1,
                  [packs |-> PacksRemove(acc.packs, listing[i][1]),
                   lines |-> acc.lines (+) Verdict(acc.packs, listing[i][1], listing[i][2])])

\* lines 161-166: the packs left in the map.
Leftover(map) == SetToBag({Diag("missing_pack", <<>>, id, 0, 0, 0) : id \in DOMAIN map})

NoHist == [failed |-> "", trees |-> EmptyBag, compared |-> EmptyBag]

\* The state of a run on the repository r with the configuration c, at the call at.
CkStart(c, r, at) ==
    /\ cfg = c
    /\ repo = r
    /\ cpc = at
    /\ result = "running"
    /\ ftq = <<>>
    /\ ft = ""
    /\ pending = <<>>
    /\ inflight = {}
    /\ idx = 0
    /\ packs = <<>>
    /\ collector = {}
    /\ snap_trees = <<>>
    /\ tpending = {}
    /\ visited = {}
    /\ diags = EmptyBag
    /\ hist = NoHist

\* A call of the backend or the cache returns an Err, which ? hands to the caller
\* of execute.
Fails(call) ==
    /\ result' = "err"
    /\ cpc' = "end"
    /\ hist' = [hist EXCEPT !.failed = call]

\* line 134: be.stream_all::<IndexFile>()
PacksStream ==
    /\ cpc = "packs_stream"
    /\ \E ok \in BOOLEAN :
          IF ok
          THEN /\ cpc' = "packs_next"
               /\ idx' = 1
               /\ packs' = <<>>
               /\ collector' = {}
               /\ UNCHANGED <<result, hist>>
          ELSE /\ Fails("stream_all index")
               /\ UNCHANGED <<idx, packs, collector>>
    /\ UNCHANGED <<cfg, repo, ftq, ft, pending, inflight, snap_trees, tpending, visited, diags>>
    /\ UNCHANGED fsVars

\* lines 135-144: stream.try_next() yields an index file, which is processed;
\* a panic in process_pack ends the run.
PacksNext ==
    /\ cpc = "packs_next"
    /\ idx <= Len(repo.index)
    /\ \E ok \in BOOLEAN :
          IF ok
          THEN LET index == repo.index[idx]
                   live1 == ProcessPacks(index.packs, 1,
                                         [packs |-> packs, lines |-> EmptyBag, panic |-> FALSE],
                                         cfg.overflow_checks)
                   both == ProcessPacks(index.packs_to_delete, 1, live1, cfg.overflow_checks)
               IN /\ collector' = Collect(collector, index)
                  /\ packs' = both.packs
                  /\ diags' = diags (+) both.lines
                  /\ IF both.panic
                     THEN result' = "panic" /\ cpc' = "end" /\ UNCHANGED idx
                     ELSE idx' = idx + 1 /\ UNCHANGED <<cpc, result>>
                  /\ UNCHANGED hist
          ELSE /\ Fails("try_next index")
               /\ UNCHANGED <<idx, packs, collector, diags>>
    /\ UNCHANGED <<cfg, repo, ftq, ft, pending, inflight, snap_trees, tpending, visited>>
    /\ UNCHANGED fsVars

\* lines 145-168: the stream has ended; the pack files are listed and compared
\* with the map; check_packs returns and execute, lines 43-51, goes on.
PacksList ==
    /\ cpc = "packs_next"
    /\ idx > Len(repo.index)
    /\ \E ok \in BOOLEAN :
          IF ok
          THEN LET listed == ListLoop(repo.listing, 1, [packs |-> packs, lines |-> EmptyBag])
               IN /\ packs' = <<>>
                  /\ diags' = diags (+) listed.lines (+) Leftover(listed.packs)
                  /\ cpc' = IF cfg.cache THEN "cache_list" ELSE "snap_stream"
                  /\ ft' = IF cfg.cache THEN "pack" ELSE ft
                  /\ UNCHANGED <<result, hist>>
          ELSE /\ Fails("list_with_size pack")
               /\ UNCHANGED <<packs, diags, ft>>
    /\ UNCHANGED <<cfg, repo, ftq, pending, inflight, idx, collector, snap_trees, tpending, visited>>
    /\ UNCHANGED fsVars

NextPacks == PacksStream \/ PacksNext \/ PacksList

\* check_packs, without a cache, on every index and every pack listing.
InitPacks ==
    /\ FsStart
    /\ \E index \in Indexes, listing \in Listings :
          CkStart([cache |-> FALSE, read_data |-> FALSE, overflow_checks |-> FALSE],
                  [index |-> index, listing |-> listing, snapshots |-> <<>>,
                   cache |-> <<>>, corrupt |-> {}],
                  "packs_stream")

SpecPacks == InitPacks /\ [][NextPacks]_vars

\* Index files with packs whose blob lengths add up to 2^32 or more.
WideIndexFiles ==
    { IndexFile(<<IndexPack(1, 5, "data", Wide(1))>>, <<IndexPack(2, 4, "data", Contiguous(2))>>),
      IndexFile(<<IndexPack(2, 5, "data", Wrapped(2)), IndexPack(1, 5, "data", Mixed(1))>>, <<>>) }

\* check_packs, without a cache, in a build with and in a build without
\* overflow checks, on every index made of the index files of both families.
InitWide ==
    /\ FsStart
    /\ \E index \in SeqsUpTo(IndexFiles \cup WideIndexFiles, MaxIndexFiles),
          checks \in BOOLEAN :
          CkStart([cache |-> FALSE, read_data |-> FALSE, overflow_checks |-> checks],
                  [index |-> index, listing |-> <<(<<1, 4>>), (<<2, 5>>)>>, snapshots |-> <<>>,
                   cache |-> <<>>, corrupt |-> {}],
                  "packs_stream")

SpecWide == InitWide /\ [][NextPacks]_vars

----------------------------------------------------------------------------
(* check_snapshots *)

\* Bound: a repository has at most MaxSnapshots snapshots.
MaxSnapshots == 2

Node(name, node_type, content, subtree) ==
    [name |-> name, node_type |-> node_type, content |-> content, subtree |-> subtree]

\* The trees the backend stores. A subtree is <<>> (None) or <<id>> (Some(id)).
\* Blob 99 is in no pack; tree 2 is a subtree of the trees 1 and 3.
StoredTrees == {1, 2, 3, 4}

Tree(id) ==
    CASE id = 1 -> <<Node("f", "file", <<11, NullId>>, <<>>), Node("d", "dir", <<>>, <<2>>)>>
      [] id = 2 -> <<Node("g", "file", <<21, 99>>, <<>>), Node("s", "symlink", <<>>, <<>>)>>
      [] id = 3 -> <<Node("e", "dir", <<>>, <<2>>), Node("k", "file", <<12, 12>>, <<>>),
                     Node("n", "dir", <<>>, <<>>)>>
      [] id = 4 -> <<Node("z", "dir", <<>>, <<NullId>>), Node("m", "file", <<NullId, NullId>>, <<>>)>>
      [] OTHER -> <<>>

\* The root trees of the snapshots; tree 7 is not stored.
Roots == {1, 3, 4, 7}

\* lines 192-204: the lines for the content of a file node from position i on
\* (enumerate() counts from 0).
RECURSIVE ContentLines(_, _, _, _)
ContentLines(coll, where, content, i) ==
    IF i > Len(content) THEN EmptyBag
    ELSE LET id == content[i]
             null == IF id = NullId
                     THEN One(Diag("null_id", where, 0, 0, i - 1, 0))
                     ELSE EmptyBag
             missing == IF ~HasData(coll, id)
                        THEN One(Diag("missing_blob", where, id, 0, 0, 0))
                        ELSE EmptyBag
         IN null (+) missing (+) ContentLines(coll, where, content, i + 1)

\* lines 190-220: the lines for one node of a tree that was reached under path.
NodeLines(coll, path, node) ==
    LET where == Append(path, node.name)
    IN CASE node.node_type = "file" -> ContentLines(coll, where, node.content, 1)
         [] node.node_type = "dir" ->
              IF node.subtree = <<>>
              THEN One(Diag("no_subtree", where, 0, 0, 0, 0))
              ELSE IF node.subtree[1] = NullId
              THEN One(Diag("null_subtree", where, 0, 0, 0, 0))
              ELSE EmptyBag
         [] OTHER -> EmptyBag

\* lines 189-221: the lines for the nodes of a tree from the i-th on.
RECURSIVE TreeLines(_, _, _, _)
TreeLines(coll, path, nodes, i) ==
    IF i > Len(nodes) THEN EmptyBag
    ELSE NodeLines(coll, path, nodes[i]) (+) TreeLines(coll, path, nodes, i + 1)

\* A tree streamer that keeps no set of the trees seen: every subtree of the
\* nodes from the i-th on is pending, under the path of each node that names it.
RECURSIVE NewSubtreesUnseen(_, _, _, _)
NewSubtreesUnseen(path, nodes, i, seen) ==
    IF i > Len(nodes) THEN {}
    ELSE LET node == nodes[i]
         IN IF node.subtree # <<>>
            THEN {<<Append(path, node.name), node.subtree[1]>>} \cup
                 NewSubtreesUnseen(path, nodes, i + 1, seen)
            ELSE NewSubtreesUnseen(path, nodes, i + 1, seen)

\* TreeStreamerOnce: the subtrees of the nodes from the i-th on that have not
\* been seen, each with the path of the first node that names it.
RECURSIVE NewSubtrees(_, _, _, _)
NewSubtrees(path, nodes, i, seen) ==
    IF i > Len(nodes) THEN {}
    ELSE LET node == nodes[i]
         IN IF node.subtree # <<>> /\ node.subtree[1] \notin seen
            THEN {<<Append(path, node.name), node.subtree[1]>>} \cup
                 NewSubtrees(path, nodes, i + 1, seen \cup {node.subtree[1]})
            ELSE NewSubtrees(path, nodes, i + 1, seen)

\* TreeStreamerOnce::new: the roots that differ, each pending once.
RootsPending(roots) == {<<(<<>>), roots[i]>> : i \in 1..Len(roots)}

\* lines 175-182: the snapshots are streamed and their trees collected.
SnapStream ==
    /\ cpc = "snap_stream"
    /\ \E ok \in BOOLEAN :
          IF ok
          THEN /\ snap_trees' = repo.snapshots
               /\ cpc' = "tree_new"
               /\ UNCHANGED <<result, hist>>
          ELSE /\ Fails("stream_all snapshot")
               /\ UNCHANGED snap_trees
    /\ UNCHANGED <<cfg, repo, ftq, ft, pending, inflight, idx, packs, collector, tpending,
                   visited, diags>>
    /\ UNCHANGED fsVars

\* lines 185-186: TreeStreamerOnce::new
TreeNew ==
    /\ cpc = "tree_new"
    /\ \E ok \in BOOLEAN :
          IF ok
          THEN /\ tpending' = RootsPending(snap_trees)
               /\ visited' = {snap_trees[i] : i \in 1..Len(snap_trees)}
               /\ cpc' = "tree_next"
               /\ UNCHANGED <<result, hist>>
          ELSE /\ Fails("TreeStreamerOnce::new")
               /\ UNCHANGED <<tpending, visited>>
    /\ UNCHANGED <<cfg, repo, ftq, ft, pending, inflight, idx, packs, collector, snap_trees, diags>>
    /\ UNCHANGED fsVars

\* lines 187-222: tree_streamer.try_next() yields a tree, in any order of the
\* pending ones, and its nodes are checked; a tree that is not stored is an Err.
TreeNext ==
    /\ cpc = "tree_next"
    /\ \E item \in tpending, ok \in BOOLEAN :
          IF ok /\ item[2] \in StoredTrees
          THEN LET path == item[1]
                   tree == Tree(item[2])
                   subtrees == NewSubtrees(path, tree, 1, visited)
               IN /\ tpending' = (tpending \ {item}) \cup subtrees
                  /\ visited' = visited \cup {x[2] : x \in subtrees}
                  /\ diags' = diags (+) TreeLines(collector, path, tree, 1)
                  /\ hist' = [hist EXCEPT !.trees = @ (+) One(item)]
                  /\ UNCHANGED <<cpc, result>>
          ELSE /\ Fails("try_next tree")
               /\ UNCHANGED <<tpending, visited, diags>>
    /\ UNCHANGED <<cfg, repo, ftq, ft, pending, inflight, idx, packs, collector, snap_trees>>
    /\ UNCHANGED fsVars

\* execute, lines 53-57, after check_snapshots has returned Ok: read_data is
\* unimplemented!(), a panic.
ExecEnd ==
    /\ cpc = "tree_next"
    /\ tpending = {}
    /\ result' = IF cfg.read_data THEN "panic" ELSE "ok"
    /\ cpc' = "end"
    /\ UNCHANGED <<cfg, repo, ftq, ft, pending, inflight, idx, packs, collector, snap_trees,
                   tpending, visited, diags, hist>>
    /\ UNCHANGED fsVars

NextSnap == PacksStream \/ PacksNext \/ PacksList \/ SnapStream \/ TreeNew \/ TreeNext \/ ExecEnd

\* check_packs and check_snapshots, without a cache, on every index and every
\* list of snapshots; the backend has the pack files 1 and 2.
InitSnap ==
    /\ FsStart
    /\ \E index \in Indexes, snapshots \in SeqsUpTo(Roots, MaxSnapshots) :
          CkStart([cache |-> FALSE, read_data |-> FALSE, overflow_checks |-> FALSE],
                  [index |-> index, listing |-> <<(<<1, 4>>), (<<2, 5>>)>>,
                   snapshots |-> snapshots, cache |-> <<>>, corrupt |-> {}],
                  "packs_stream")

SpecSnap == InitSnap /\ [][NextSnap]_vars

----------------------------------------------------------------------------
(* check_cache_files and execute *)

\* Bound: the cache holds at most MaxCached files of one type.
MaxCached == 6

\* line 81: for_each_concurrent(5, ...)
CacheLimit == 5

FileTypes == {"snapshot", "index", "pack"}

\* cache.read_full and be.read_full: the bytes of a file; the cached copy of a
\* file in corrupt differs.
BackendBytes(file_type, id) == <<file_type, id, 0>>
CachedBytes(corrupt, file_type, id) ==
    IF <<file_type, id>> \in corrupt THEN <<file_type, id, 1>> ELSE BackendBytes(file_type, id)

\* A comparison that reports the files that are identical.
CompareLinesIdentical(file_type, id, data_cached, data) ==
    IF data_cached = data THEN One(Diag("cache", <<file_type>>, id, 0, 0, 0)) ELSE EmptyBag

\* lines 86-91: the line for a file whose cached bytes are data_cached.
CompareLines(file_type, id, data_cached, data) ==
    IF data_cached # data THEN One(Diag("cache", <<file_type>>, id, 0, 0, 0)) ELSE EmptyBag

\* An execute whose first loop ends after the first file type.
AfterCacheFirstOnly(file_type, queue) ==
    IF file_type = "pack" THEN [cpc |-> "snap_stream", ftq |-> queue]
    ELSE [cpc |-> "packs_stream", ftq |-> <<>>]

\* check_cache_files has returned Ok to execute: lines 29-37 go on with the next
\* file type, then line 41; line 45 goes on with line 48.
AfterCache(file_type, queue) ==
    IF file_type = "pack" THEN [cpc |-> "snap_stream", ftq |-> queue]
    ELSE IF Len(queue) > 1 THEN [cpc |-> "list_be", ftq |-> Tail(queue)]
    ELSE [cpc |-> "packs_stream", ftq |-> <<>>]

\* execute, lines 27-29 and 40-41.
ExecStart ==
    /\ cpc = "start"
    /\ IF cfg.cache
       THEN ftq' = <<"snapshot", "index">> /\ cpc' = "list_be"
       ELSE ftq' = <<>> /\ cpc' = "packs_stream"
    /\ UNCHANGED <<cfg, repo, result, ft, pending, inflight, idx, packs, collector, snap_trees,
                   tpending, visited, diags, hist>>
    /\ UNCHANGED fsVars

\* execute, line 34: be.list_with_size(file_type), then check_cache_files is called.
ListBackend ==
    /\ cpc = "list_be"
    /\ \E ok \in BOOLEAN :
          IF ok
          THEN /\ ft' = Head(ftq)
               /\ cpc' = "cache_list"
               /\ UNCHANGED <<result, hist>>
          ELSE /\ Fails("list_with_size")
               /\ UNCHANGED ft
    /\ UNCHANGED <<cfg, repo, ftq, pending, inflight, idx, packs, collector, snap_trees,
                   tpending, visited, diags>>
    /\ UNCHANGED fsVars

\* check_cache_files, lines 65-80: the cached files are listed; no file, Ok.
CacheList ==
    /\ cpc = "cache_list"
    /\ \E ok \in BOOLEAN :
          IF ok
          THEN LET files == repo.cache[ft]
                   next == AfterCache(ft, ftq)
               IN IF files = <<>>
                  THEN /\ cpc' = next.cpc
                       /\ ftq' = next.ftq
                       /\ UNCHANGED <<pending, inflight, result, hist>>
                  ELSE /\ pending' = files
                       /\ inflight' = {}
                       /\ cpc' = "cache_run"
                       /\ UNCHANGED <<ftq, result, hist>>
          ELSE /\ Fails("cache list_with_size")
               /\ UNCHANGED <<ftq, pending, inflight>>
    /\ UNCHANGED <<cfg, repo, ft, idx, packs, collector, snap_trees, tpending, visited, diags>>
    /\ UNCHANGED fsVars

\* A for_each_concurrent without a limit.
MayStartAny(running) == TRUE

\* A for_each_concurrent that starts no comparison.
MayStartNone(running) == FALSE

\* line 81: for_each_concurrent(5, ..) starts a comparison while fewer than 5 run.
MayStart(running) == Cardinality(running) < CacheLimit

\* line 81: for_each_concurrent takes the next file while fewer than 5 run.
CacheSpawn ==
    /\ cpc = "cache_run"
    /\ pending # <<>>
    /\ MayStart(inflight)
    /\ inflight' = inflight \cup {Head(pending)}
    /\ pending' = Tail(pending)
    /\ UNCHANGED <<cfg, repo, cpc, result, ftq, ft, idx, packs, collector, snap_trees,
                   tpending, visited, diags, hist>>
    /\ UNCHANGED fsVars

\* lines 82-93: one comparison runs to its end; a read_full that fails is an
\* unwrap() of an Err, a panic.
CacheCompare ==
    /\ cpc = "cache_run"
    /\ \E id \in inflight, outcome \in {"ok", "cache read_full", "read_full"} :
          IF outcome = "ok"
          THEN /\ diags' = diags (+) CompareLines(ft, id, CachedBytes(repo.corrupt, ft, id),
                                                  BackendBytes(ft, id))
               /\ inflight' = inflight \ {id}
               /\ hist' = [hist EXCEPT !.compared = @ (+) One(<<ft, id>>)]
               /\ UNCHANGED <<cpc, result>>
          ELSE /\ result' = "panic"
               /\ cpc' = "end"
               /\ hist' = [hist EXCEPT !.failed = outcome]
               /\ UNCHANGED <<diags, inflight>>
    /\ UNCHANGED <<cfg, repo, ftq, ft, pending, idx, packs, collector, snap_trees, tpending,
                   visited>>
    /\ UNCHANGED fsVars

\* lines 94-97: every comparison has ended; check_cache_files returns Ok.
CacheFinish ==
    /\ cpc = "cache_run"
    /\ pending = <<>>
    /\ inflight = {}
    /\ cpc' = AfterCache(ft, ftq).cpc
    /\ ftq' = AfterCache(ft, ftq).ftq
    /\ UNCHANGED <<cfg, repo, result, ft, pending, inflight, idx, packs, collector, snap_trees,
                   tpending, visited, diags, hist>>
    /\ UNCHANGED fsVars

NextCheck ==
    \/ ExecStart
    \/ ListBackend
    \/ CacheList
    \/ CacheSpawn
    \/ CacheCompare
    \/ CacheFinish
    \/ PacksStream
    \/ PacksNext
    \/ PacksList
    \/ SnapStream
    \/ TreeNew
    \/ TreeNext
    \/ ExecEnd

\* The files of the cache: none; a few of each type; more snapshots than
\* comparisons may run at once.
CacheContents ==
    { [t \in FileTypes |-> <<>>],
      [t \in FileTypes |-> IF t = "index" THEN <<1, 2>> ELSE <<1>>],
      [t \in FileTypes |-> IF t = "snapshot" THEN [i \in 1..MaxCached |-> i] ELSE <<>>] }

\* The cached files whose bytes differ from the backend's.
Corruptions == { {}, {<<"snapshot", 1>>, <<"index", 2>>, <<"pack", 1>>} }

\* A run of execute with and without a cache, with and without --read-data.
InitCheck ==
    /\ FsStart
    /\ \E cache \in BOOLEAN, read_data \in BOOLEAN,
          index \in SeqsUpTo({IndexFile(<<IndexPack(1, 5, "data", Mixed(1))>>,
                                        <<IndexPack(2, 5, "data", Gap(2))>>)}, 1),
          listing \in {<<(<<1, 4>>)>>},
          snapshots \in {<<>>, <<1, 3>>},
          files \in CacheContents, corrupt \in Corruptions :
          CkStart([cache |-> cache, read_data |-> read_data, overflow_checks |-> FALSE],
                  [index |-> index, listing |-> listing, snapshots |-> snapshots,
                   cache |-> files, corrupt |-> corrupt],
                  "start")

SpecCheck == InitCheck /\ [][NextCheck]_vars

\* Runs of execute in a build with and in a build without overflow checks, on
\* the index above and on those with lengths that add up to 2^32.
InitCheckFair ==
    /\ FsStart
    /\ \E cache \in BOOLEAN, read_data \in BOOLEAN, checks \in BOOLEAN,
          index \in SeqsUpTo({IndexFile(<<IndexPack(1, 5, "data", Mixed(1))>>,
                                        <<IndexPack(2, 5, "data", Gap(2))>>)}
                             \cup WideIndexFiles, 1),
          listing \in {<<(<<1, 4>>)>>},
          snapshots \in {<<>>, <<1, 3>>},
          files \in CacheContents, corrupt \in Corruptions :
          CkStart([cache |-> cache, read_data |-> read_data, overflow_checks |-> checks],
                  [index |-> index, listing |-> listing, snapshots |-> snapshots,
                   cache |-> files, corrupt |-> corrupt],
                  "start")

\* The runtime drives execute as long as it can take a step: every call of the
\* backend and of the cache returns, with Ok or with an Err.
SpecCheckFair == InitCheckFair /\ [][NextCheck]_vars /\ WF_vars(NextCheck)

----------------------------------------------------------------------------
(* Properties of check_packs *)

\* The pack descriptors of the index, of packs and of packs_to_delete.
Described ==
    UNION {{repo.index[i].packs[j] : j \in 1..Len(repo.index[i].packs)} \cup
           {repo.index[i].packs_to_delete[j] : j \in 1..Len(repo.index[i].packs_to_delete)} :
           i \in 1..Len(repo.index)}

\* The sizes the index gives for the pack id.
IndexSizes(id) == {PackSize(p) : p \in {q \in Described : q.id = id}}

\* The sizes the backend lists for the pack id (one, or none).
ListedSizes(id) == {repo.listing[i][2] : i \in {j \in 1..Len(repo.listing) : repo.listing[j][1] = id}}

PackIdsSeen == {p.id : p \in Described} \cup {repo.listing[i][1] : i \in 1..Len(repo.listing)}

PacksChecked == result = "running" /\ cpc = "snap_stream"

\* C10: after the pack/index cross-check every pack Id has exactly one
\* verdict: "not referenced in index" iff the backend lists it and no index
\* entry describes it; "size mismatch" iff both have it and the size of the
\* index differs from the size of the backend; "referenced but missing" iff an
\* index entry describes it and the backend does not list it; no line iff both
\* have it with equal sizes.  (Where the index describes a pack twice with two
\* sizes, "the size of the index" is either of them.)
C10_PackVerdicts ==
    PacksChecked =>
        \A id \in PackIdsSeen :
            LET notref == Copies(diags, Lines("not_referenced", id))
                size == Copies(diags, Lines("size", id))
                missing == Copies(diags, Lines("missing_pack", id))
                listed == ListedSizes(id) # {}
                described == IndexSizes(id) # {}
            IN /\ notref = (IF listed /\ ~described THEN 1 ELSE 0)
               /\ missing = (IF described /\ ~listed THEN 1 ELSE 0)
               /\ size <= 1
               /\ size = 1 => listed /\ described /\ IndexSizes(id) # ListedSizes(id)
               /\ (listed /\ described /\ IndexSizes(id) \cap ListedSizes(id) = {}) => size = 1
               /\ \A d \in Lines("size", id) : d.x \in IndexSizes(id) /\ d.y \in ListedSizes(id)
               /\ (listed /\ described /\ IndexSizes(id) = ListedSizes(id)) =>
                      notref + size + missing = 0

\* C10 witness: check_packs has returned with a size mismatch for a pack that
\* the index and the backend both have, and with an orphan pack.
C10_Witness ==
    /\ PacksChecked
    /\ \E id \in PackIdsSeen : Copies(diags, Lines("size", id)) = 1
    /\ \E id \in PackIdsSeen : Copies(diags, Lines("not_referenced", id)) = 1
    /\ \E id \in PackIdsSeen : Copies(diags, Lines("missing_pack", id)) = 0 /\ IndexSizes(id) # {}

\* The blobs of the pack descriptors of the index files 1..n: <<i, list, j, k>>
\* is the k-th blob of the j-th pack of the list of the i-th index file.
PackList(i, list) == IF list = "packs" THEN repo.index[i].packs ELSE repo.index[i].packs_to_delete

Occurrences(n) ==
    {o \in (1..n) \X {"packs", "packs_to_delete"} \X (1..2) \X (1..3) :
        /\ o[3] <= Len(PackList(o[1], o[2]))
        /\ o[4] <= Len(PackList(o[1], o[2])[o[3]].blobs)}

PackAt(o) == PackList(o[1], o[2])[o[3]]
BlobAt(o) == PackAt(o).blobs[o[4]]

RECURSIVE SumLengths(_, _)
SumLengths(blobs, K) ==
    IF K = {} THEN 0
    ELSE LET k == CHOOSE x \in K : TRUE IN blobs[k].length + SumLengths(blobs, K \ {k})

\* The sum of the lengths of the blobs of the pack that come before the blob
\* in offset order (the blobs of a pack above have different offsets).
SumBefore(o) ==
    SumLengths(PackAt(o).blobs,
               {k \in 1..Len(PackAt(o).blobs) : PackAt(o).blobs[k].offset < BlobAt(o).offset})

WrongOffset(o) == BlobAt(o).offset # SumBefore(o)
WrongKind(o) == BlobAt(o).tpe # PackAt(o).tpe

OffsetLine(o) == Diag("offset", <<>>, PackAt(o).id, BlobAt(o).id, BlobAt(o).offset, SumBefore(o))
KindLine(o) == Diag("blob_type", <<>>, PackAt(o).id, BlobAt(o).id, 0, 0)

\* The lines the blobs of the index files 1..n are to get.
BlobLinesDue(n) ==
    [d \in {OffsetLine(o) : o \in {x \in Occurrences(n) : WrongOffset(x)}} \cup
            {KindLine(o) : o \in {x \in Occurrences(n) : WrongKind(x)}} |->
        Cardinality({o \in Occurrences(n) :
                        \/ WrongOffset(o) /\ OffsetLine(o) = d
                        \/ WrongKind(o) /\ KindLine(o) = d})]

\* The lines of the bag b whose kind is in kinds.
OfKinds(b, kinds) == [d \in {x \in BagToSet(b) : x.kind \in kinds} |-> CopiesIn(d, b)]

\* C11: for every pack descriptor of packs and of packs_to_delete of the index
\* files processed, there is one line for each blob whose kind is not the
\* pack's and one for each blob whose recorded offset is not the sum of the
\* lengths of the blobs before it in offset order, and no other such line (a
\* contiguous pack of one kind has none); no blob stops the processing of the
\* blobs and packs after it.
C11_BlobDiagnostics ==
    /\ result # "panic"
    /\ idx >= 1 => OfKinds(diags, {"offset", "blob_type"}) = BlobLinesDue(idx - 1)

----------------------------------------------------------------------------
(* Properties of execute and check_snapshots *)

\* C7: a run in which no backend, cache or deserialization call fails returns
\* success, whatever the repository holds and whatever the configuration is.
C7_RunSucceeds == (result # "running" /\ hist.failed = "") => result = "ok"

\* C8: when a backend or cache call fails in any phase, the reads of the cache
\* mirror check included, the run stops, no later phase starts, and the failure
\* is returned to the caller as an error value.
C8_FailureIsReturned ==
    hist.failed # "" => /\ result = "err"
                        /\ cpc = "end"
                        /\ ~ENABLED NextCheck

Range(seq) == {seq[i] : i \in 1..Len(seq)}

\* The data blobs the index lookup resolves: those of the packs lists.
IndexData ==
    {b.id : b \in {x \in UNION {UNION {Range(p.blobs) : p \in Range(repo.index[i].packs)} :
                                   i \in 1..Len(repo.index)} : x.tpe = "data"}}

Positions(content, id) == {i \in 1..Len(content) : content[i] = id}

\* C9: for every content Id of every File node of every visited tree: a null
\* Id gives exactly one "null ID" line and no "missing in index" line; a
\* non-null Id that the index lookup has no data blob for gives exactly one
\* "missing in index" line; any other Id gives none.
C9_ContentLines ==
    \A item \in BagToSet(hist.trees) :
        \A n \in 1..Len(Tree(item[2])) :
            LET node == Tree(item[2])[n]
                where == Append(item[1], node.name)
            IN node.node_type = "file" =>
                 /\ \A i \in 1..Len(node.content) :
                       CopiesIn(Diag("null_id", where, 0, 0, i - 1, 0), diags) =
                           (IF node.content[i] = NullId THEN 1 ELSE 0)
                 /\ \A id \in {node.content[i] : i \in 1..Len(node.content)} :
                       CopiesIn(Diag("missing_blob", where, id, 0, 0, 0), diags) =
                           (IF id # NullId /\ id \notin IndexData
                            THEN Cardinality(Positions(node.content, id))
                            ELSE 0)

\* The subtree Ids of the Dir nodes of the trees in S.
Subtrees(S) ==
    UNION {{Tree(id)[n].subtree[1] :
               n \in {m \in 1..Len(Tree(id)) : Tree(id)[m].subtree # <<>>}} : id \in S}

\* The tree Ids reachable from the roots in at most n steps.
RECURSIVE ReachableIn(_, _)
ReachableIn(S, n) == IF n = 0 THEN S ELSE ReachableIn(S \cup Subtrees(S), n - 1)

Reachable == ReachableIn(Range(repo.snapshots), Cardinality(StoredTrees))

\* How many times the tree id has been processed.
TimesProcessed(id) == Copies(hist.trees, {item \in BagToSet(hist.trees) : item[2] = id})

\* The lines of the trees in items, each tree taken once.
RECURSIVE LinesOfTrees(_)
LinesOfTrees(items) ==
    IF items = {} THEN EmptyBag
    ELSE LET item == CHOOSE x \in items : TRUE
         IN TreeLines(collector, item[1], Tree(item[2]), 1) (+) LinesOfTrees(items \ {item})

TreeKinds == {"null_id", "missing_blob", "no_subtree", "null_subtree"}

\* C12: no tree Id is processed twice, however many snapshots and directories
\* refer to it; when the check has ended with success every tree Id reachable
\* from a snapshot root has been processed once; the lines about nodes are
\* those of the processed trees, each tree's lines once.
C12_TreeOnce ==
    /\ \A item \in BagToSet(hist.trees) : TimesProcessed(item[2]) = 1
    /\ (cpc = "end" /\ result = "ok") => \A id \in Reachable : TimesProcessed(id) = 1
    /\ OfKinds(diags, TreeKinds) = LinesOfTrees(BagToSet(hist.trees))

\* C12 witness: the snapshots have the roots 1 and 3, which both have a
\* directory with the subtree 2; the check has ended, and the trees 1, 2 and 3
\* have been processed.
C12_Witness ==
    /\ cpc = "end" /\ result = "ok"
    /\ repo.snapshots = <<1, 3>>
    /\ {item[2] : item \in BagToSet(hist.trees)} = {1, 2, 3}
    /\ \E d \in BagToSet(diags) : d.kind = "missing_blob" /\ d.id = 99

----------------------------------------------------------------------------
(* Properties of the order of execute *)

\* Where execute is: in the pack/index cross-check, in the snapshot/tree check.
InPhase2 == cpc \in {"packs_stream", "packs_next"}
InPhase3 == cpc \in {"snap_stream", "tree_new", "tree_next"}

\* The cross-check has not begun; it has processed every index file and the listing.
Phase2NotStarted == idx = 0 /\ packs = <<>>
Phase2Done == idx > Len(repo.index) /\ packs = <<>>
Phase3NotStarted == snap_trees = <<>> /\ tpending = {} /\ hist.trees = EmptyBag

\* Every cached file of the types has been compared once; and no comparison runs.
Compared(types) ==
    \A t \in types : \A id \in Range(repo.cache[t]) : CopiesIn(<<t, id>>, hist.compared) = 1

AllCompared(types) == inflight = {} /\ Compared(types)

NoneCompared(types) == \A c \in BagToSet(hist.compared) : c[1] \notin types

\* C13: the phases run in the order 1, 2, 3 and do not overlap: while the
\* pack/index cross-check runs, every cache mirror comparison, of snapshot,
\* index and pack files, has completed; while the snapshot/tree check runs,
\* the cross-check has completed; a comparison runs only before both.
C13_PhasesInOrder ==
    /\ (cfg.cache /\ InPhase2) => AllCompared({"snapshot", "index", "pack"})
    /\ InPhase3 => Phase2Done
    /\ cpc = "cache_run" => Phase2NotStarted /\ Phase3NotStarted

\* C13 as amended: the stages run one after the other in the order: cache
\* comparisons of snapshot and index files, pack/index cross-check, cache
\* comparisons of pack files, snapshot/tree check; each has completed before
\* the next starts.
C13_StagesInOrder ==
    /\ (cfg.cache /\ InPhase2) => AllCompared({"snapshot", "index"}) /\ NoneCompared({"pack"})
    /\ InPhase2 => Phase3NotStarted
    /\ InPhase3 => Phase2Done /\ (cfg.cache => AllCompared({"snapshot", "index", "pack"}))
    /\ cpc = "cache_run" =>
          /\ Phase3NotStarted
          /\ ft \in {"snapshot", "index"} => Phase2NotStarted
          /\ ft = "pack" => Phase2Done /\ Compared({"snapshot", "index"})
    /\ inflight # {} => cpc \in {"cache_run", "end"}

\* C13 witness: the comparison of a cached pack file runs after the
\* cross-check has processed an index file and the listing, and before the
\* snapshots are read.
C13_Witness ==
    /\ cpc = "cache_run" /\ ft = "pack" /\ inflight # {}
    /\ repo.index # <<>> /\ Phase2Done /\ Phase3NotStarted
    /\ CopiesIn(<<"index", 2>>, hist.compared) = 1

----------------------------------------------------------------------------
(* Properties of check_cache_files *)

\* C14: during the cache mirror check at most 5 comparisons are in flight at
\* once, whatever the number of cached files and the order they complete in.
C14_AtMostFiveInFlight == Cardinality(inflight) <= 5

\* C14 witness: 5 comparisons are in flight and a cached file waits for one
\* of them to complete.
C14_Witness == cpc = "cache_run" /\ Cardinality(inflight) = 5 /\ pending # <<>>

\* The cache mirror check of the file type has returned Ok.
CacheChecked(t) ==
    /\ cfg.cache
    /\ \/ result = "ok"
       \/ /\ result = "running"
          /\ CASE t = "snapshot" -> cpc # "start" /\ Len(ftq) < 2
               [] t = "index" -> InPhase2 \/ InPhase3 \/ (cpc \in {"cache_list", "cache_run"} /\ ft = "pack")
               [] t = "pack" -> InPhase3

\* The lines of the cache mirror check about files of the type t.
CacheLines(t) == {d \in BagToSet(diags) : d.kind = "cache" /\ d.where = <<t>>}

\* The cached files of the type t whose bytes are not the backend's.
Differing(t) == {id \in Range(repo.cache[t]) : <<t, id>> \in repo.corrupt}

\* C15: in every interleaving of the comparisons, when the cache mirror check
\* of a file type has finished, each cached file of the type has been compared
\* exactly once and the lines are exactly those of the (file type, Id) pairs
\* whose cached bytes differ from the backend's, one each; no line when all
\* files are identical.  No file is ever compared twice.
C15_CacheLines ==
    /\ \A c \in BagToSet(hist.compared) : CopiesIn(c, hist.compared) = 1
    /\ \A t \in FileTypes :
          CacheChecked(t) =>
              /\ \A id \in Range(repo.cache[t]) : CopiesIn(<<t, id>>, hist.compared) = 1
              /\ {d.id : d \in CacheLines(t)} = Differing(t)
              /\ \A d \in CacheLines(t) : CopiesIn(d, diags) = 1

\* C15 witness: a run with a cache has ended with success; of the cached index
\* files 1 and 2 the second differs from the backend's and has its line.
C15_Witness ==
    /\ cfg.cache /\ result = "ok"
    /\ repo.cache["index"] = <<1, 2>>
    /\ {d.id : d \in CacheLines("index")} = {2}
    /\ {d.id : d \in CacheLines("pack")} = {1}

----------------------------------------------------------------------------
(* Properties of getxattr and getattr *)

\* The attributes of the name that the node of the path has.
Named(path, name) ==
    {MetaOf(path).extended_attributes[i] :
        i \in {j \in 1..Len(MetaOf(path).extended_attributes) :
                  MetaOf(path).extended_attributes[j].name = name}}

\* C16: getxattr on a resolvable node returns the stored value of the
\* attribute of that name unchanged when the node has one (for a size probe:
\* the length of that value), and fails with NotFound when it has none.
C16_GetxattrValueOrNotFound ==
    \A t \in DoneCalls("getxattr") :
        NodeFromPath(th[t].path).ok =>
            /\ \A a \in Named(th[t].path, th[t].name) :
                  /\ th[t].ret.ok
                  /\ th[t].size # 0 => th[t].ret.kind = "Data" /\ th[t].ret.data = a.value
                  /\ th[t].size = 0 => th[t].ret.kind = "Size" /\ th[t].ret.len = Len(a.value)
            /\ Named(th[t].path, th[t].name) = {} =>
                  ~th[t].ret.ok /\ th[t].ret.err = ENOENT

\* The instant of a stored timestamp, or the default.
StoredTime(opt, default) == IF opt = None THEN default ELSE opt[1].secs

\* C17: the attribute record of a node has the stored value of each metadata
\* field that is present (as far as the field of the record holds it: 16 bits
\* of the mode, 32 bits of the link count) and otherwise the start time for a
\* missing timestamp, 0 for a missing mode, uid or gid, and 1 for a missing
\* link count; the device number is 0 for a node that is no device.
C17_AttrDefaults ==
    \A t \in DoneCalls("getattr") :
        th[t].ret.ok =>
            LET meta == MetaOf(th[t].path)
                attr == th[t].ret.attr
            IN /\ attr.atime = StoredTime(meta.atime, Now)
               /\ attr.mtime = StoredTime(meta.mtime, Now)
               /\ attr.ctime = StoredTime(meta.ctime, Now)
               /\ meta.mode = None => attr.perm = 0
               /\ (meta.mode # None /\ meta.mode[1] < 65536) => attr.perm = meta.mode[1]
               /\ attr.uid = (IF meta.uid = None THEN 0 ELSE meta.uid[1])
               /\ attr.gid = (IF meta.gid = None THEN 0 ELSE meta.gid[1])
               /\ ~meta.has_links => attr.nlink = 1
               /\ (meta.has_links /\ meta.links.hi = 0) => attr.nlink = meta.links.lo
               /\ NodeTypeOf(th[t].path).tpe \notin {"Dev", "Chardev"} => attr.rdev = 0

----------------------------------------------------------------------------
(* Termination of execute *)

\* Every phase has run to its end.
AllPhasesDone ==
    /\ Phase2Done
    /\ tpending = {} /\ inflight = {} /\ pending = <<>>
    /\ cfg.cache => Compared(FileTypes)

----------------------------------------------------------------------------
(* Properties of the index lookup *)

\* The data blobs of the packs of the list of the index files.
DataBlobsOf(list) ==
    {b.id : b \in {x \in UNION {UNION {Range(p.blobs) : p \in Range(PackList(i, list))} :
                                   i \in 1..Len(repo.index)} : x.tpe = "data"}}

\* The data blobs that only packs of packs_to_delete describe, and those packs.
DeleteOnly == DataBlobsOf("packs_to_delete") \ DataBlobsOf("packs")

DeleteOnlyPacks ==
    {p \in UNION {Range(repo.index[i].packs_to_delete) : i \in 1..Len(repo.index)} :
        \E b \in Range(p.blobs) : b.id \in DeleteOnly}

\* C19: the lookup of the snapshot/tree check resolves no blob that only a
\* pack of packs_to_delete describes: every File node that refers to such a
\* blob gets its "missing in index" line; yet that pack has been checked for
\* offsets and kinds like every other, and it is in the map the backend
\* listing is compared with, so it gets no "not referenced in index" line.
C19_DeletedPacksNotInLookup ==
    /\ \A id \in DeleteOnly : ~HasData(collector, id)
    /\ \A item \in BagToSet(hist.trees) :
          \A n \in 1..Len(Tree(item[2])) :
              LET node == Tree(item[2])[n]
              IN node.node_type = "file" =>
                    \A id \in Range(node.content) \cap DeleteOnly :
                        CopiesIn(Diag("missing_blob", Append(item[1], node.name), id, 0, 0, 0),
                                 diags) = Cardinality(Positions(node.content, id))
    /\ InPhase3 =>
          /\ OfKinds(diags, {"offset", "blob_type"}) = BlobLinesDue(Len(repo.index))
          /\ \A p \in DeleteOnlyPacks : Lines("not_referenced", p.id) = {}

\* C19 witness: pack 2 is described in packs_to_delete only, with a gap before
\* its second blob, and the backend lists it; the file g of tree 2 refers to
\* its blob 21 and has the "missing in index" line; the gap has its line.
C19_Witness ==
    /\ InPhase3
    /\ 21 \in DeleteOnly
    /\ \E d \in BagToSet(diags) : d.kind = "missing_blob" /\ d.id = 21
    /\ \E d \in BagToSet(diags) : d.kind = "offset" /\ d.id = 2 /\ d.sub = 22
    /\ Lines("not_referenced", 2) = {}

----------------------------------------------------------------------------
(* Progress of the calls on the handle table *)

Waiting(t) == th[t].pc \in {"open_wait", "release_wait", "read_wait"}
Holding(t) == th[t].pc \in {"open_locked", "release_locked", "read_locked"}

====
